---- MODULE Spec2Model ----
(***************************************************************************)
(* Rita's Lateness Simulator (martin1712/RMK-Challenge).                   *)
(*                                                                         *)
(* Times are seconds since midnight of the run's date, durations are       *)
(* seconds.  A trip is a pair <<sched_dep, sched_arr>>, a probability is   *)
(* the fraction [num, den] that the float division late_count / n stands   *)
(* for.                                                                    *)
(***************************************************************************)
EXTENDS Integers, Sequences, FiniteSets, TLC

(***************************************************************************)
(* config.py                                                               *)
(***************************************************************************)
WALK_DURATION_HOME_TO_ZOO == 300
WALK_DURATION_TOOMPARK_TO_OFFICE == 240
BUS_TRAVEL_BASE_SECONDS == 720
WALK_VARIABILITY_SECONDS == 30
BUS_TRAVEL_VARIABILITY_SECONDS == 60
BUS_DEPARTURE_JITTER_SECONDS == 20
\* time(hour=20, minute=15), time(hour=21, minute=15)
START_TIME == 72900
MEETING_TIME == 76500
STEP_INTERVAL_SECONDS == 30

\* main.py: the refresh interval in fetch_and_pair
REFRESH_SECONDS == 300

\* the three jitter bounds as config.py sets them
ConfiguredJitter ==
    [walk |-> WALK_VARIABILITY_SECONDS,
     dep |-> BUS_DEPARTURE_JITTER_SECONDS,
     ride |-> BUS_TRAVEL_VARIABILITY_SECONDS]

\* matcher.py: _MIN_TRAVEL_SECONDS
MIN_TRAVEL_SECONDS == BUS_TRAVEL_BASE_SECONDS - BUS_TRAVEL_VARIABILITY_SECONDS

(***************************************************************************)
(* Bounds of the model.                                                    *)
(***************************************************************************)
\* longest departure / arrival list handed to the matcher on its own
MaxLen == 3

\* the instants the matcher's inputs are drawn from: 10:00:00, 10:08:00,
\* 10:10:00, 10:21:00, 10:25:00
MatcherTimes == {36000, 36480, 36600, 37260, 37500}
\* the minimum travel durations the matcher is run with: the configured one,
\* the one of the 10:00/10:10 scenario, and a non-positive one
MinTravels == {MIN_TRAVEL_SECONDS, 600, 0, -120}

\* the Monte Carlo iteration count the sweep is checked with (config.py sets
\* 200_000)
MaxIterations == 2
MONTE_CARLO_ITERATIONS == MaxIterations
\* the iteration counts compute_lateness_probability is called with when the
\* configured count is not taken for granted
IterationCounts == (-1)..MONTE_CARLO_ITERATIONS

\* the command lines the sweep is run with, <<--start, --meeting, --step>>:
\* 20:50 to 21:00 every 200 s and every 300 s, 21:05 to 21:15 every 300 s
Runs ==
    {<<75000, 75600, 200>>, <<75000, 75600, 250>>, <<75000, 75600, 300>>,
     <<75900, MEETING_TIME, 300>>}
\* the line 8 buses the API may list at the Zoo stop and at the Toompark stop
\* simulate_step on its own: the longest trips it is given, the (sched_dep,
\* sched_arr) pairs they are made of, its departure times, the deadlines of
\* its Simulator, and the settings of the three jitter bounds (0 or the
\* value config.py gives)
MaxTrips == 2
TripPool == {<<75310, 76200>>, <<75400, 76260>>, <<76000, 76700>>}
SamplerDepartures == {75000, 75100, 75900}
Deadlines == {MEETING_TIME, 76800}
JitterConfigs ==
    [walk : {0, WALK_VARIABILITY_SECONDS},
     dep : {0, BUS_DEPARTURE_JITTER_SECONDS},
     ride : {0, BUS_TRAVEL_VARIABILITY_SECONDS}]

ZooSchedule == {75400, 76000}
ToomparkSchedule == {76260, 76700}

VARIABLES
    \* pair_departure_and_destination: arguments, module constant, locals
    departure_arrivals, destination_arrivals, min_travel, i, j, paired, mpc,
    \* main: start, end and args.step; the mc_iterations argument
    start, end, step, mc_iterations,
    \* simulate_curve: its place in the loop and its locals.  An unbound
    \* local is <<>>, a bound one <<value>>.
    pc, current, trips, last_fetch, new_trips, sample, times, probs, raw_p,
    \* whether fetch_and_pair requested the two sources, at the top of this
    \* step and after a stale sample
    requested,
    \* compute_lateness_probability: range index, late_count, and
    \* sample["lateness"] of the latest trial; how often it was called
    mc_i, late_count, mc_lateness, mc_calls,
    \* simulate_step called on its own: the three jitter bounds of config.py
    \* as configured, the Simulator it is called on, whether the call has returned or raised, and which trip
    \* _find_catchable_bus returned (<<>> before the call and when it raised)
    jitter_cfg, simulator, spc, picked

matcherVars ==
    <<departure_arrivals, destination_arrivals, min_travel, i, j, paired, mpc>>
cliVars == <<start, end, step, mc_iterations>>
sweepVars ==
    <<pc, current, trips, last_fetch, new_trips, sample, times, probs, raw_p, requested>>
estimatorVars == <<mc_i, late_count, mc_lateness, mc_calls>>
samplerVars == <<jitter_cfg, simulator, spc, picked>>
vars == <<matcherVars, cliVars, sweepVars, estimatorVars, samplerVars>>

(***************************************************************************)
(* Helpers                                                                 *)
(***************************************************************************)
\* "Both input lists must be sorted ascending" (fetcher.py returns sorted(...))
IsSorted(s) == \A k \in 1..(Len(s) - 1) : s[k] <= s[k + 1]

SortedSeqs(S, n) ==
    UNION {{s \in [1..k -> S] : IsSorted(s)} : k \in 0..n}

(***************************************************************************)
(* matcher.py                                                              *)
(***************************************************************************)
\* Mutants of the loop body: the gap is only required to be non-negative; a
\* too-soon arrival drops the departure instead of the arrival; a pairing
\* leaves the arrival to be paired again.
MatchStep_anyLater(st, deps, arrs, minTravel) ==
    LET depart_time == deps[st.i + 1]
        dest_time == arrs[st.j + 1]
        dt == dest_time - depart_time
    IN  IF dt >= 0
        THEN [i |-> st.i + 1, j |-> st.j + 1,
              paired |-> Append(st.paired, <<depart_time, dest_time>>)]
        ELSE [i |-> st.i, j |-> st.j + 1, paired |-> st.paired]

MatchStep_dropsDeparture(st, deps, arrs, minTravel) ==
    LET depart_time == deps[st.i + 1]
        dest_time == arrs[st.j + 1]
        dt == dest_time - depart_time
    IN  IF dt >= minTravel
        THEN [i |-> st.i + 1, j |-> st.j + 1,
              paired |-> Append(st.paired, <<depart_time, dest_time>>)]
        ELSE [i |-> st.i + 1, j |-> st.j, paired |-> st.paired]

MatchStep_reusesArrival(st, deps, arrs, minTravel) ==
    LET depart_time == deps[st.i + 1]
        dest_time == arrs[st.j + 1]
        dt == dest_time - depart_time
    IN  IF dt >= minTravel
        THEN [i |-> st.i + 1, j |-> st.j,
              paired |-> Append(st.paired, <<depart_time, dest_time>>)]
        ELSE [i |-> st.i, j |-> st.j + 1, paired |-> st.paired]

\* Mutant: an arrival exactly the minimum after the departure is too soon
MatchStep_strictlyLater(st, deps, arrs, minTravel) ==
    LET depart_time == deps[st.i + 1]
        dest_time == arrs[st.j + 1]
        dt == dest_time - depart_time
    IN  IF dt > minTravel
        THEN [i |-> st.i + 1, j |-> st.j + 1,
              paired |-> Append(st.paired, <<depart_time, dest_time>>)]
        ELSE [i |-> st.i, j |-> st.j + 1, paired |-> st.paired]

\* One pass of the while loop's body; i and j are the code's 0-based cursors.
MatchStep(st, deps, arrs, minTravel) ==
    LET depart_time == deps[st.i + 1]
        dest_time == arrs[st.j + 1]
        dt == dest_time - depart_time
    IN  IF dt >= minTravel
        THEN [i |-> st.i + 1, j |-> st.j + 1,
              paired |-> Append(st.paired, <<depart_time, dest_time>>)]
        ELSE [i |-> st.i, j |-> st.j + 1, paired |-> st.paired]

\* while i < n_dep and j < n_dest
MatchGuard(st, deps, arrs) == st.i < Len(deps) /\ st.j < Len(arrs)

RECURSIVE MatchRun(_, _, _, _)
MatchRun(st, deps, arrs, minTravel) ==
    IF MatchGuard(st, deps, arrs)
    THEN MatchRun(MatchStep(st, deps, arrs, minTravel), deps, arrs, minTravel)
    ELSE st.paired

pair_departure_and_destination(deps, arrs) ==
    MatchRun([i |-> 0, j |-> 0, paired |-> <<>>], deps, arrs, MIN_TRAVEL_SECONDS)

\* The matcher run on its own, one loop pass per step.
MatcherInit ==
    /\ departure_arrivals \in SortedSeqs(MatcherTimes, MaxLen)
    /\ destination_arrivals \in SortedSeqs(MatcherTimes, MaxLen)
    /\ min_travel \in MinTravels
    /\ i = 0
    /\ j = 0
    /\ paired = <<>>
    /\ mpc = "loop"
    /\ start = START_TIME
    /\ end = MEETING_TIME
    /\ step = STEP_INTERVAL_SECONDS
    /\ mc_iterations = MONTE_CARLO_ITERATIONS
    /\ pc = "idle"
    /\ current = START_TIME
    /\ trips = <<>>
    /\ last_fetch = <<>>
    /\ new_trips = <<>>
    /\ sample = <<>>
    /\ times = <<>>
    /\ probs = <<>>
    /\ raw_p = <<>>
    /\ requested = [top |-> FALSE, stale |-> FALSE]
    /\ mc_i = 0
    /\ late_count = 0
    /\ mc_lateness = <<>>
    /\ mc_calls = 0
    /\ jitter_cfg = ConfiguredJitter
    /\ simulator = <<>>
    /\ spc = "idle"
    /\ picked = <<>>

MatchLoop ==
    /\ mpc = "loop"
    /\ MatchGuard([i |-> i, j |-> j, paired |-> paired],
                  departure_arrivals, destination_arrivals)
    /\ LET st == MatchStep([i |-> i, j |-> j, paired |-> paired],
                           departure_arrivals, destination_arrivals, min_travel)
       IN  /\ i' = st.i
           /\ j' = st.j
           /\ paired' = st.paired
    /\ UNCHANGED <<departure_arrivals, destination_arrivals, min_travel, mpc>>
    /\ UNCHANGED <<cliVars, sweepVars, estimatorVars, samplerVars>>

MatchReturn ==
    /\ mpc = "loop"
    /\ ~MatchGuard([i |-> i, j |-> j, paired |-> paired],
                   departure_arrivals, destination_arrivals)
    /\ mpc' = "returned"
    /\ UNCHANGED <<departure_arrivals, destination_arrivals, min_travel, i, j, paired>>
    /\ UNCHANGED <<cliVars, sweepVars, estimatorVars, samplerVars>>

MatcherNext == MatchLoop \/ MatchReturn

MatcherSpec == MatcherInit /\ [][MatcherNext]_vars

(***************************************************************************)
(* simulator.py                                                            *)
(***************************************************************************)
\* np.random.triangular(-b, 0, b): the two ends and the mode
Triangular(b) == {-b, 0, b}

Max(a, b) == IF a >= b THEN a ELSE b

\* np.random.triangular(-b, 0, b) raises ValueError unless -b < b
\* ("left > mode" for b < 0, "left == right" for b = 0)
TriangularRaises(b) == b <= 0

\* The loop test of the scan with the jitter left out of the comparison
ScanTripsWith_scheduled(jitter, k, arrive_zoo, trps) ==
    IF k > Len(trps)
    THEN {[actual_dep |-> trps[Len(trps)][1] + dep_jitter,
           sched_arr |-> trps[Len(trps)][2],
           base_ride |-> trps[Len(trps)][2] - trps[Len(trps)][1],
           trip |-> Len(trps),
           fallback |-> TRUE] : dep_jitter \in Triangular(jitter)}
    ELSE LET hit == {n \in k..Len(trps) : trps[n][1] >= arrive_zoo}
             n == IF hit = {} THEN Len(trps)
                  ELSE CHOOSE m \in hit : \A o \in hit : m <= o
         IN  {[actual_dep |-> trps[n][1] + dep_jitter,
               sched_arr |-> trps[n][2],
               base_ride |-> trps[n][2] - trps[n][1],
               trip |-> n,
               fallback |-> hit = {}] : dep_jitter \in Triangular(jitter)}

\* The for loop over trips from the k-th on, then the fallback to the last
\* trip, for a departure jitter bound: every (actual_dep, sched_arr,
\* base_ride) some draws of dep_jitter return, with the index of the trip it
\* was built from and whether the loop ran out.  A trip is passed only by a
\* draw that leaves it before arrive_zoo.
RECURSIVE ScanTripsWith(_, _, _, _)
ScanTripsWith(jitter, k, arrive_zoo, trps) ==
    IF k > Len(trps)
    THEN LET last_sched_dep == trps[Len(trps)][1]
             last_sched_arr == trps[Len(trps)][2]
         IN  {[actual_dep |-> last_sched_dep + dep_jitter,
               sched_arr |-> last_sched_arr,
               base_ride |-> last_sched_arr - last_sched_dep,
               trip |-> Len(trps),
               fallback |-> TRUE]
                 : dep_jitter \in Triangular(jitter)}
    ELSE LET sched_dep == trps[k][1]
             sched_arr == trps[k][2]
             caught == {dj \in Triangular(jitter) : sched_dep + dj >= arrive_zoo}
             missed == Triangular(jitter) \ caught
         IN  {[actual_dep |-> sched_dep + dep_jitter,
               sched_arr |-> sched_arr,
               base_ride |-> sched_arr - sched_dep,
               trip |-> k,
               fallback |-> FALSE] : dep_jitter \in caught}
             \cup (IF missed # {}
                   THEN ScanTripsWith(jitter, k + 1, arrive_zoo, trps)
                   ELSE {})

\* The scan with the departure jitter bound config.py sets
ScanTrips(k, arrive_zoo, trps) ==
    ScanTripsWith(BUS_DEPARTURE_JITTER_SECONDS, k, arrive_zoo, trps)

\* _find_catchable_bus for a departure jitter bound
find_catchable_bus_with(jitter, arrive_zoo, trps) ==
    IF trps = <<>>
    THEN {[actual_dep |-> arrive_zoo, sched_arr |-> arrive_zoo, base_ride |-> 0,
           trip |-> 0, fallback |-> FALSE]}
    ELSE ScanTripsWith(jitter, 1, arrive_zoo, trps)

find_catchable_bus(arrive_zoo, trps) ==
    find_catchable_bus_with(BUS_DEPARTURE_JITTER_SECONDS, arrive_zoo, trps)

\* Simulator.__init__
Simulator(class_start, walk_home_to_zoo, walk_toompark_to_office) ==
    [class_start |-> class_start,
     walk_home |-> walk_home_to_zoo,
     walk_office |-> walk_toompark_to_office]

\* simulate_step once its four draws are made
SampleOf(self, departure, walk_jitter, bus, ride_jitter, final_walk_jitter) ==
    LET walk_end == departure + self.walk_home + walk_jitter
        ride_dur == bus.base_ride + ride_jitter
        bus_arrival == bus.actual_dep + ride_dur
        arrival == bus_arrival + self.walk_office + final_walk_jitter
    IN  [departure |-> departure,
         walk_end |-> walk_end,
         walk_dur |-> walk_end - departure,
         bus_dep |-> bus.actual_dep,
         wait_dur |-> Max(0, bus.actual_dep - walk_end),
         ride_dur |-> ride_dur,
         bus_arr |-> bus_arrival,
         arrival |-> arrival,
         lateness |-> Max(0, arrival - self.class_start)]

\* Whether one of the draws of simulate_step raises under the bounds cfg:
\* the walk and final-walk draws, the ride draw, and the departure draws,
\* which are made only for a non-empty trips
simulate_step_raises(cfg, trps) ==
    \/ TriangularRaises(cfg.walk)
    \/ trps # <<>> /\ TriangularRaises(cfg.dep)
    \/ TriangularRaises(cfg.ride)

\* Simulator.simulate_step under the bounds cfg, when no draw raises: every
\* returned dict, with the bus _find_catchable_bus gave it
simulate_step_with(cfg, self, departure, trps) ==
    UNION {
      UNION {
        {[sample |-> SampleOf(self, departure, walk_jitter, bus, ride_jitter,
                              final_walk_jitter),
          bus |-> bus] :
             ride_jitter \in Triangular(cfg.ride),
             final_walk_jitter \in Triangular(cfg.walk)}
        : bus \in find_catchable_bus_with(cfg.dep,
                     departure + self.walk_home + walk_jitter, trps)}
      : walk_jitter \in Triangular(cfg.walk)}

(***************************************************************************)
(* montecarlo.py                                                           *)
(***************************************************************************)
\* late_count / mc_iterations for mc_iterations # 0, as a fraction with a
\* positive denominator (0 / -n is -0.0, which equals 0.0)
Div(k, n) == IF n > 0 THEN [num |-> k, den |-> n] ELSE [num |-> -k, den |-> -n]

ProbLess(p, q) == p.num * q.den < q.num * p.den
ProbEq(p, q) == p.num * q.den = q.num * p.den

\* Python's max(a, b): b only if it is greater
PyMax(a, b) == IF ProbLess(a, b) THEN b ELSE a

(***************************************************************************)
(* fetcher.py, main.py                                                     *)
(***************************************************************************)
\* timedelta.seconds
TimedeltaSeconds(td) == td % 86400

\* s in ascending order, as sorted(...) returns it
RECURSIVE SortedSeqOf(_)
SortedSeqOf(S) ==
    IF S = {} THEN <<>>
    ELSE LET m == CHOOSE x \in S : \A y \in S : x <= y
         IN  <<m>> \o SortedSeqOf(S \ {m})

\* fetch_arrival_datetimes at wall-clock time now: the listed buses later
\* than now, ascending; none when the request fails or lists nothing.  The
\* sweep is paced to the wall clock, so now is the step's departure time.
fetch_arrival_datetimes(schedule, now) ==
    {SortedSeqOf(S) : S \in SUBSET {t \in schedule : t > now}}

\* Mutant: the sources are requested however recently they were
fetch_and_pair_ungated(last, cur) ==
    {[new_trips |-> pair_departure_and_destination(deps, arrs),
      last_fetch |-> <<cur>>,
      requested |-> TRUE]
        : deps \in fetch_arrival_datetimes(ZooSchedule, cur),
          arrs \in fetch_arrival_datetimes(ToomparkSchedule, cur)}

\* the departure times a sweep of Runs steps through (current = start,
\* current = next_target while current <= end)
SweepDepartures ==
    UNION {{run[1] + k * run[3] : k \in 0..((run[2] - run[1]) \div run[3])}
           : run \in Runs}

\* the two requests of fetch_and_pair and the pairing, at time cur
Fetched(cur) ==
    {[new_trips |-> pair_departure_and_destination(deps, arrs),
      last_fetch |-> <<cur>>,
      requested |-> TRUE]
        : deps \in fetch_arrival_datetimes(ZooSchedule, cur),
          arrs \in fetch_arrival_datetimes(ToomparkSchedule, cur)}

\* Fetched at the sweep's departure times, computed once
FetchedAt == [cur \in SweepDepartures |-> Fetched(cur)]

\* fetch_and_pair: every (new_trips, new_last_fetch) it can return, and
\* whether it requested the sources
fetch_and_pair(last, cur) ==
    IF last = <<>> \/ TimedeltaSeconds(cur - last[1]) >= REFRESH_SECONDS
    THEN IF cur \in SweepDepartures THEN FetchedAt[cur] ELSE Fetched(cur)
    ELSE {[new_trips |-> <<>>, last_fetch |-> last, requested |-> FALSE]}

\* Mutant: whatever the refresh returned becomes the trips
Refreshed_always(old, new) == new

\* if new_trips: trips = new_trips
Refreshed(old, new) == IF new # <<>> THEN new ELSE old

\* sim = Simulator(class_start=datetime.combine(start.date(), MEETING_TIME), ...)
sim ==
    Simulator(MEETING_TIME, WALK_DURATION_HOME_TO_ZOO, WALK_DURATION_TOOMPARK_TO_OFFICE)

\* the trips a sweep of Runs can hold: none, or what a refresh returned
SweepTripSets ==
    {<<>>} \cup UNION {{f.new_trips : f \in FetchedAt[cur]} : cur \in SweepDepartures}

\* the samples of sim.simulate_step at the sweep's arguments, computed once
SamplesAt ==
    [departure \in SweepDepartures |->
        [trps \in SweepTripSets |->
            {o.sample : o \in simulate_step_with(ConfiguredJitter, sim,
                                                departure, trps)}]]

\* Simulator.simulate_step with the bounds config.py sets: every sample its
\* draws can give
simulate_step(self, departure, trps) ==
    IF self = sim /\ departure \in SweepDepartures /\ trps \in SweepTripSets
    THEN SamplesAt[departure][trps]
    ELSE {o.sample : o \in simulate_step_with(ConfiguredJitter, self,
                                             departure, trps)}

\* main, up to the call of simulate_curve, and simulate_curve up to its loop
SweepInit(iterations) ==
    /\ \E run \in Runs :
          /\ start = run[1]
          /\ end = run[2]
          /\ step = run[3]
    /\ mc_iterations \in iterations
    /\ pc = "loop"
    /\ current = start
    /\ trips = <<>>
    /\ last_fetch = <<>>
    /\ new_trips = <<>>
    /\ sample = <<>>
    /\ times = <<>>
    /\ probs = <<>>
    /\ raw_p = <<>>
    /\ requested = [top |-> FALSE, stale |-> FALSE]
    /\ mc_i = 0
    /\ late_count = 0
    /\ mc_lateness = <<>>
    /\ mc_calls = 0
    /\ jitter_cfg = ConfiguredJitter
    /\ simulator = sim
    /\ spc = "idle"
    /\ picked = <<>>
    /\ departure_arrivals = <<>>
    /\ destination_arrivals = <<>>
    /\ min_travel = MIN_TRAVEL_SECONDS
    /\ i = 0
    /\ j = 0
    /\ paired = <<>>
    /\ mpc = "idle"

\* Mutant: the sweep stops short of a departure at end itself
InWindow_strict(cur, e) == cur < e

\* the loop test, while current <= end (line 113)
InWindow(cur, e) == cur <= e

\* while current <= end: the refresh if no trips are known, and the step's
\* first sample (lines 113-122)
BeginStep ==
    /\ pc = "loop"
    /\ InWindow(current, end)
    /\ \E f \in (IF trips = <<>>
                 THEN fetch_and_pair(last_fetch, current)
                 ELSE {[new_trips |-> new_trips, last_fetch |-> last_fetch,
                        requested |-> FALSE]}) :
          /\ new_trips' = f.new_trips
          /\ last_fetch' = f.last_fetch
          /\ requested' = [top |-> f.requested, stale |-> FALSE]
          /\ trips' = IF trips = <<>> THEN Refreshed(trips, f.new_trips) ELSE trips
    /\ \E s \in simulate_step(sim, current, trips') : sample' = <<s>>
    /\ pc' = "check"
    /\ UNCHANGED <<current, times, probs, raw_p>>
    /\ UNCHANGED <<matcherVars, cliVars, estimatorVars, samplerVars>>

\* Mutant: a bus leaving as the traveler arrives counts as gone
IsStale_orEqual(smp) == smp.bus_dep <= smp.walk_end

\* sample["bus_dep"] < sample["walk_end"]
IsStale(smp) == smp.bus_dep < smp.walk_end

\* if the sample is stale: refresh and draw again (lines 126-132)
CheckStale ==
    /\ pc = "check"
    /\ IF IsStale(sample[1])
       THEN /\ \E f \in fetch_and_pair(last_fetch, current) :
                  /\ new_trips' = f.new_trips
                  /\ last_fetch' = f.last_fetch
                  /\ requested' = [requested EXCEPT !.stale = f.requested]
                  /\ trips' = Refreshed(trips, f.new_trips)
            /\ \E s \in simulate_step(sim, current, trips') : sample' = <<s>>
       ELSE UNCHANGED <<new_trips, last_fetch, requested, trips, sample>>
    /\ pc' = "log"
    /\ UNCHANGED <<current, times, probs, raw_p>>
    /\ UNCHANGED <<matcherVars, cliVars, estimatorVars, samplerVars>>

\* unpack and log the sample, enter compute_lateness_probability (lines
\* 134-150, montecarlo.py line 32); the step's sample and refresh are not
\* read again
LogSample ==
    /\ pc = "log"
    /\ pc' = "mc"
    /\ sample' = <<>>
    /\ new_trips' = <<>>
    /\ requested' = [top |-> FALSE, stale |-> FALSE]
    /\ mc_i' = 0
    /\ late_count' = 0
    /\ mc_lateness' = <<>>
    /\ mc_calls' = mc_calls + 1
    /\ UNCHANGED <<current, trips, last_fetch, times, probs, raw_p>>
    /\ UNCHANGED <<matcherVars, cliVars, samplerVars>>

\* Mutant: a trial that is exactly on time counts as late
CountLate_onTime(count, smp) == IF smp.lateness >= 0 THEN count + 1 ELSE count

\* if sample["lateness"] > 0: late_count += 1
CountLate(count, smp) == IF smp.lateness > 0 THEN count + 1 ELSE count

\* one pass of for _ in range(mc_iterations) (montecarlo.py lines 33-36)
MCIter ==
    /\ pc = "mc"
    /\ mc_i < mc_iterations
    /\ \E s \in simulate_step(sim, current, trips) :
          /\ mc_lateness' = <<s.lateness>>
          /\ late_count' = CountLate(late_count, s)
    /\ mc_i' = mc_i + 1
    /\ UNCHANGED mc_calls
    /\ UNCHANGED <<matcherVars, cliVars, sweepVars, samplerVars>>

\* return late_count / mc_iterations (montecarlo.py line 37): a
\* ZeroDivisionError ends the run
EstimatorReturn ==
    /\ pc = "mc"
    /\ ~(mc_i < mc_iterations)
    /\ IF mc_iterations = 0
       THEN /\ pc' = "error"
            /\ raw_p' = raw_p
       ELSE /\ pc' = "mono"
            /\ raw_p' = <<Div(late_count, mc_iterations)>>
    /\ mc_lateness' = <<>>
    /\ UNCHANGED <<current, trips, last_fetch, new_trips, sample, times, probs, requested>>
    /\ UNCHANGED <<mc_i, late_count, mc_calls>>
    /\ UNCHANGED <<matcherVars, cliVars, samplerVars>>

\* Mutant: the raw estimate is stored as it is
Clamped_raw(raw, ps) == raw

\* the probability stored for the step (lines 151-153)
Clamped(raw, ps) == IF ps # <<>> THEN PyMax(raw, ps[Len(ps)]) ELSE raw

\* enforce the monotone curve, store the point, move to the next departure
\* (lines 151-167)
Emit ==
    /\ pc = "mono"
    /\ times' = Append(times, current)
    /\ probs' = Append(probs, Clamped(raw_p[1], probs))
    /\ current' = current + step
    /\ raw_p' = <<>>
    /\ pc' = "loop"
    /\ UNCHANGED <<trips, last_fetch, new_trips, sample, requested>>
    /\ UNCHANGED <<matcherVars, cliVars, estimatorVars, samplerVars>>

\* the loop ends: return times, probs (lines 113, 169-170)
Return ==
    /\ pc = "loop"
    /\ ~InWindow(current, end)
    /\ pc' = "done"
    /\ UNCHANGED <<current, trips, last_fetch, new_trips, sample, times, probs,
                   raw_p, requested>>
    /\ UNCHANGED <<matcherVars, cliVars, estimatorVars, samplerVars>>

Next == BeginStep \/ CheckStale \/ LogSample \/ MCIter \/ EstimatorReturn \/ Emit \/ Return

\* the sweep as configured
Init == SweepInit({MONTE_CARLO_ITERATIONS})
Spec == Init /\ [][Next]_vars

\* the sweep with any iteration count
InitAnyCount == SweepInit(IterationCounts)
SpecAnyCount == InitAnyCount /\ [][Next]_vars

\* the sweep as configured, run to its end: simulate_curve is one sequential
\* loop of calls that each return (the HTTP requests time out, the sleeps are
\* finite, the estimator's loop is a bounded range), so a step that can be
\* taken is taken
FairSpec == Spec /\ WF_vars(Next)

(***************************************************************************)
(* simulate_step called on its own                                         *)
(***************************************************************************)
\* the lists pair_departure_and_destination can return over TripPool:
\* departures and arrivals both strictly increasing
TripSets ==
    UNION {{t \in [1..n -> TripPool] :
               \A k \in 1..(n - 1) : t[k][1] < t[k + 1][1] /\ t[k][2] < t[k + 1][2]}
           : n \in 0..MaxTrips}

SamplerInit ==
    /\ jitter_cfg \in JitterConfigs
    /\ \E class_start \in Deadlines :
          simulator = Simulator(class_start, WALK_DURATION_HOME_TO_ZOO,
                                WALK_DURATION_TOOMPARK_TO_OFFICE)
    /\ current \in SamplerDepartures
    /\ trips \in TripSets
    /\ spc = "call"
    /\ picked = <<>>
    /\ sample = <<>>
    /\ start = START_TIME
    /\ end = MEETING_TIME
    /\ step = STEP_INTERVAL_SECONDS
    /\ mc_iterations = MONTE_CARLO_ITERATIONS
    /\ pc = "idle"
    /\ last_fetch = <<>>
    /\ new_trips = <<>>
    /\ times = <<>>
    /\ probs = <<>>
    /\ raw_p = <<>>
    /\ requested = [top |-> FALSE, stale |-> FALSE]
    /\ mc_i = 0
    /\ late_count = 0
    /\ mc_lateness = <<>>
    /\ mc_calls = 0
    /\ departure_arrivals = <<>>
    /\ destination_arrivals = <<>>
    /\ min_travel = MIN_TRAVEL_SECONDS
    /\ i = 0
    /\ j = 0
    /\ paired = <<>>
    /\ mpc = "idle"

\* simulator.simulate_step(current, trips) returns its dict
SimulateStepReturns ==
    /\ spc = "call"
    /\ ~simulate_step_raises(jitter_cfg, trips)
    /\ \E o \in simulate_step_with(jitter_cfg, simulator, current, trips) :
          /\ sample' = <<o.sample>>
          /\ picked' = <<[trip |-> o.bus.trip, fallback |-> o.bus.fallback]>>
    /\ spc' = "returned"
    /\ UNCHANGED <<pc, current, trips, last_fetch, new_trips, times, probs,
                   raw_p, requested>>
    /\ UNCHANGED <<jitter_cfg, simulator>>
    /\ UNCHANGED <<matcherVars, cliVars, estimatorVars>>

\* simulator.simulate_step(current, trips) raises ValueError in a draw
SimulateStepRaises ==
    /\ spc = "call"
    /\ simulate_step_raises(jitter_cfg, trips)
    /\ spc' = "raised"
    /\ UNCHANGED <<jitter_cfg, simulator, picked>>
    /\ UNCHANGED <<matcherVars, cliVars, sweepVars, estimatorVars>>

SamplerNext == SimulateStepReturns \/ SimulateStepRaises

SamplerSpec == SamplerInit /\ [][SamplerNext]_vars

(***************************************************************************)
(* Properties of the sweep (Spec, SpecAnyCount)                            *)
(***************************************************************************)
Last(s) == s[Len(s)]
One == [num |-> 1, den |-> 1]

\* smp is a sample simulate_step can return for this departure and trips:
\* its times give back the four draws, each within its bounds, and the bus
\* is one find_catchable_bus returns for its walk_end
IsSample(smp, self, departure, trps) ==
    LET walk_jitter == smp.walk_end - departure - self.walk_home
        final_walk_jitter == smp.arrival - smp.bus_arr - self.walk_office
    IN  /\ walk_jitter \in Triangular(WALK_VARIABILITY_SECONDS)
        /\ final_walk_jitter \in Triangular(WALK_VARIABILITY_SECONDS)
        /\ \E bus \in find_catchable_bus(smp.walk_end, trps) :
               LET ride_jitter == smp.ride_dur - bus.base_ride
               IN  /\ ride_jitter \in Triangular(BUS_TRAVEL_VARIABILITY_SECONDS)
                   /\ smp = SampleOf(self, departure, walk_jitter, bus,
                                     ride_jitter, final_walk_jitter)

\* some sample for this departure and trips has this lateness
IsLateness(late, self, departure, trps) ==
    \E walk_jitter \in Triangular(WALK_VARIABILITY_SECONDS) :
      \E bus \in find_catchable_bus(departure + self.walk_home + walk_jitter, trps) :
        \E ride_jitter \in Triangular(BUS_TRAVEL_VARIABILITY_SECONDS) :
          \E final_walk_jitter \in Triangular(WALK_VARIABILITY_SECONDS) :
            SampleOf(self, departure, walk_jitter, bus, ride_jitter,
                     final_walk_jitter).lateness = late

\* C1: the curve is non-decreasing and within [0,1]; the first step stores
\* the raw estimate, every later step the larger of the raw estimate and the
\* probability stored before it.
C1_MonotoneCurve ==
    /\ [](\A k \in 1..Len(probs) :
              /\ probs[k].den > 0
              /\ 0 <= probs[k].num
              /\ probs[k].num <= probs[k].den
              /\ k > 1 => ~ProbLess(probs[k], probs[k - 1]))
    /\ [][(pc = "mono" /\ pc' = "loop") =>
              /\ Len(probs') = Len(probs) + 1
              /\ SubSeq(probs', 1, Len(probs)) = probs
              /\ IF probs = <<>>
                 THEN Last(probs') = raw_p[1]
                 ELSE /\ Last(probs') \in {raw_p[1], Last(probs)}
                      /\ ~ProbLess(Last(probs'), raw_p[1])
                      /\ ~ProbLess(Last(probs'), Last(probs))]_vars

\* the estimator has just returned less than the probability of the step
\* before, which was neither 0 nor 1
C1_Witness ==
    /\ pc = "mono"
    /\ probs # <<>>
    /\ ProbLess(raw_p[1], Last(probs))
    /\ ProbLess(Last(probs), One)

\* C2 as stated: while no trip is known, every sample is late and every
\* stored probability is 1.  (trips is never emptied again once it holds
\* trips, so trips = <<>> means no trip was known at any step so far.)
C2_EmptyTripSetAlwaysLate ==
    trips = <<>> =>
        /\ \A k \in 1..Len(probs) : ProbEq(probs[k], One)
        /\ sample # <<>> => sample[1].lateness > 0
        /\ mc_lateness # <<>> => mc_lateness[1] > 0

\* the refresh interval has passed since the last request (or none was made)
IntervalElapsed ==
    last_fetch = <<>> \/ TimedeltaSeconds(current - last_fetch[1]) >= REFRESH_SECONDS

\* what a request of the two sources at the current step can match
Matchable ==
    {pair_departure_and_destination(deps, arrs)
        : deps \in fetch_arrival_datetimes(ZooSchedule, current),
          arrs \in fetch_arrival_datetimes(ToomparkSchedule, current)}

\* C3 as stated: at the top of a step, if no trip is known or the refresh
\* interval has passed, the sources are requested and last_fetch is updated
\* before the sample is drawn.
C3_RefreshIfEmptyOrElapsed ==
    [][(pc = "loop" /\ pc' = "check" /\ (trips = <<>> \/ IntervalElapsed)) =>
           /\ requested'.top
           /\ last_fetch' = <<current>>]_vars

\* C3 as amended: at the top of a step the sources are requested exactly when
\* no trip is known and the refresh interval has passed (or no request was
\* made yet); then last_fetch becomes the current departure time and the
\* matcher's output, if not empty, becomes the trips, before the sample is
\* drawn from them; otherwise trips and last_fetch stay as they are.
C3_RefreshIfEmptyAndElapsed ==
    [][(pc = "loop" /\ pc' = "check") =>
           /\ requested'.top <=> (trips = <<>> /\ IntervalElapsed)
           /\ requested'.top =>
                  /\ last_fetch' = <<current>>
                  /\ new_trips' \in Matchable
                  /\ trips' = IF new_trips' # <<>> THEN new_trips' ELSE trips
           /\ ~requested'.top => UNCHANGED <<last_fetch, trips>>
           /\ sample' # <<>>
           /\ IsSample(sample'[1], sim, current, trips')]_vars

\* a later step found no trip known 300 s after the last request, requested
\* the sources again and got trips
C3_Witness ==
    /\ pc = "check"
    /\ requested.top
    /\ probs # <<>>
    /\ trips # <<>>
    /\ sample # <<>>

C5_NoDataKeepsTrips ==
    /\ [](pc # "error")
    /\ [](pc # "done" => ENABLED Next)
    /\ [](pc \in {"loop", "done"} =>
              /\ Len(probs) = Len(times)
              /\ current = start + Len(times) * step
              /\ \A k \in 1..Len(times) : times[k] = start + (k - 1) * step)
    /\ [][((requested'.top /\ pc' = "check") \/ (requested'.stale /\ pc' = "log"))
              /\ new_trips' = <<>> => trips' = trips]_vars
    /\ [][trips' # trips =>
              /\ (requested'.top /\ pc' = "check") \/ (requested'.stale /\ pc' = "log")
              /\ trips' = new_trips'
              /\ new_trips' \in Matchable]_vars

\* the sources were requested after a stale sample, nothing was matched, and
\* the trips known before are still there
C5_Witness ==
    /\ pc = "log"
    /\ requested.stale
    /\ new_trips = <<>>
    /\ trips # <<>>
    /\ sample # <<>>

\* C6: for a count n >= 1 the estimator draws exactly n samples, all at the
\* same departure time and trips, counts those with lateness > 0 and returns
\* that count over n: a multiple of 1/n in [0,1].
C6_ExactFraction ==
    /\ []((pc = "mono" /\ mc_iterations >= 1) =>
              /\ mc_i = mc_iterations
              /\ raw_p[1] = [num |-> late_count, den |-> mc_iterations]
              /\ 0 <= late_count
              /\ late_count <= mc_iterations)
    /\ [][(pc = "mc" /\ pc' = "mc") =>
              /\ mc_i' = mc_i + 1
              /\ mc_i' <= mc_iterations
              /\ UNCHANGED <<current, trips>>
              /\ IsLateness(mc_lateness'[1], sim, current, trips)
              /\ late_count' = late_count + (IF mc_lateness'[1] > 0 THEN 1 ELSE 0)]_vars

\* two trials, one of them late: the estimator returned 1/2
C6_Witness ==
    /\ pc = "mono"
    /\ mc_iterations = 2
    /\ mc_i = 2
    /\ raw_p = <<[num |-> 1, den |-> 2]>>

\* C7 as stated: with an iteration count of zero or less the estimator returns
\* no probability and the run stores no point.
C7_NonPositiveCountFails ==
    mc_iterations <= 0 =>
        /\ raw_p = <<>>
        /\ probs = <<>>
        /\ pc # "mono"

(***************************************************************************)
(* Properties of the matcher (MatcherSpec)                                 *)
(***************************************************************************)
DepsOf(ps) == [k \in 1..Len(ps) |-> ps[k][1]]
ArrsOf(ps) == [k \in 1..Len(ps) |-> ps[k][2]]

\* s is t with some elements left out
RECURSIVE IsSubseq(_, _)
IsSubseq(s, t) ==
    IF s = <<>> THEN TRUE
    ELSE IF t = <<>> THEN FALSE
    ELSE IF Head(s) = Head(t) THEN IsSubseq(Tail(s), Tail(t))
    ELSE IsSubseq(s, Tail(t))

\* C8: for ascending inputs the matcher's output is ascending by departure,
\* keeps the departures in their input order, and every pair (d, a) has
\* a - d >= the minimum travel duration.
C8_SortedAndMinGap ==
    mpc = "returned" =>
        /\ IsSorted(DepsOf(paired))
        /\ IsSubseq(DepsOf(paired), departure_arrivals)
        /\ \A k \in 1..Len(paired) : paired[k][2] - paired[k][1] >= min_travel

\* two pairs came out, after an arrival that was less than the configured
\* minimum later than its departure (yet not earlier than it) was skipped
C8_Witness ==
    /\ mpc = "returned"
    /\ min_travel = MIN_TRAVEL_SECONDS
    /\ Len(paired) = 2
    /\ destination_arrivals[1] >= departure_arrivals[1]
    /\ destination_arrivals[1] # paired[1][2]

\* the place in arrs of the arrival of each pair: the first one after the
\* previous pair's arrival that has the pair's arrival time
RECURSIVE ArrivalPlaces(_, _, _)
ArrivalPlaces(ps, arrs, from) ==
    IF ps = <<>> THEN <<>>
    ELSE LET at == {m \in from..Len(arrs) : arrs[m] = Head(ps)[2]}
         IN  IF at = {} THEN <<0>>
             ELSE LET m == CHOOSE x \in at : \A y \in at : x <= y
                  IN  <<m>> \o ArrivalPlaces(Tail(ps), arrs, m + 1)

\* C9: the matcher is a two-cursor merge.  A pairing consumes its departure
\* and its arrival: the departures paired so far are exactly the first i
\* departures, and their arrivals sit at strictly increasing places among
\* the first j arrivals, so none is paired twice.  An arrival passed over is
\* less than the minimum after the departure current at that time, and is in
\* no pair.  Departures are left unpaired only when the arrivals are
\* exhausted.  Departures [10:00, 10:10], arrivals [10:08, 10:25] and a
\* minimum of 600 s give exactly [(10:00, 10:25)].
C9_TwoCursorMerge ==
    LET places == ArrivalPlaces(paired, destination_arrivals, 1)
    IN  /\ Len(paired) = i
        /\ DepsOf(paired) = SubSeq(departure_arrivals, 1, i)
        /\ i <= j
        /\ j <= Len(destination_arrivals)
        /\ Len(places) = i
        /\ \A k \in 1..i : places[k] \in 1..j
        /\ \A m \in 1..j :
               (\A k \in 1..i : places[k] # m) =>
                   LET cur == Cardinality({k \in 1..i : places[k] < m}) + 1
                   IN  /\ cur <= Len(departure_arrivals)
                       /\ destination_arrivals[m] - departure_arrivals[cur] < min_travel
        /\ (mpc = "returned" /\ i < Len(departure_arrivals)) =>
               j = Len(destination_arrivals)
        /\ ( /\ mpc = "returned"
             /\ departure_arrivals = <<36000, 36600>>
             /\ destination_arrivals = <<36480, 37500>>
             /\ min_travel = 600 ) => paired = << <<36000, 37500>> >>

C9_Witness ==
    /\ mpc = "returned"
    /\ departure_arrivals = <<36000, 36600>>
    /\ destination_arrivals = <<36480, 37500>>
    /\ min_travel = 600
    /\ paired = << <<36000, 37500>> >>
    /\ i = 1
    /\ j = 2

\* the arrivals that are at least minTravel later than departure d
Plausible(d, arrs, minTravel) == {m \in 1..Len(arrs) : arrs[m] - d >= minTravel}

RECURSIVE EarliestFree(_, _, _, _, _)
EarliestFree(k, used, deps, arrs, minTravel) ==
    IF k > Len(deps) THEN <<>>
    ELSE LET free == Plausible(deps[k], arrs, minTravel) \ used
         IN  IF free = {} THEN EarliestFree(k + 1, used, deps, arrs, minTravel)
             ELSE LET m == CHOOSE x \in free : \A y \in free : x <= y
                  IN  << <<deps[k], arrs[m]>> >>
                          \o EarliestFree(k + 1, used \cup {m}, deps, arrs, minTravel)

C16_NoArrivalSkipped ==
    mpc = "returned" =>
        /\ (departure_arrivals = <<>> \/ destination_arrivals = <<>>) => paired = <<>>
        /\ min_travel <= 0 =>
              /\ j = i
              /\ \A k \in 1..i :
                    paired[k] = <<departure_arrivals[k], destination_arrivals[k]>>

\* the length of the shorter input
Shorter(deps, arrs) == IF Len(deps) <= Len(arrs) THEN Len(deps) ELSE Len(arrs)

\* C16 as amended: an empty input gives an empty output.  With a minimum
\* travel duration <= 0 every pair's arrival is at least the minimum after
\* its departure (so at most -minimum before it); an arrival that is skipped
\* is more than -minimum earlier than the departure current at that time,
\* hence earlier than that departure; and no arrival is skipped exactly when
\* the k-th arrival is at least the minimum after the k-th departure for
\* every k up to the length of the shorter input, in which case the k-th
\* departure is paired with the k-th arrival.
C16_SkipsOnlyTooEarly ==
    mpc = "returned" =>
        /\ (departure_arrivals = <<>> \/ destination_arrivals = <<>>) => paired = <<>>
        /\ min_travel <= 0 =>
              LET n == Shorter(departure_arrivals, destination_arrivals)
                  places == ArrivalPlaces(paired, destination_arrivals, 1)
                  inPlace == \A k \in 1..n :
                      destination_arrivals[k] - departure_arrivals[k] >= min_travel
              IN  /\ \A k \in 1..Len(paired) :
                        paired[k][2] - paired[k][1] >= min_travel
                  /\ \A m \in 1..j :
                        (\A k \in 1..i : places[k] # m) =>
                            LET cur == Cardinality({k \in 1..i : places[k] < m}) + 1
                            IN  /\ destination_arrivals[m]
                                      < departure_arrivals[cur] + min_travel
                                /\ destination_arrivals[m] < departure_arrivals[cur]
                  /\ (j = i) <=> inPlace
                  /\ inPlace =>
                        paired = [k \in 1..n |->
                                    <<departure_arrivals[k], destination_arrivals[k]>>]

\* with a negative minimum an arrival far before the departure is skipped
\* and one less than -minimum before it is paired with it
C16_Witness ==
    /\ mpc = "returned"
    /\ min_travel < 0
    /\ j > i
    /\ \E k \in 1..Len(paired) : paired[k][2] < paired[k][1]

(***************************************************************************)
(* Properties of simulate_step (SamplerSpec)                               *)
(***************************************************************************)
\* a draw of the departure jitter leaves the k-th trip before walk_end
Missable(k, walk_end) == trips[k][1] - jitter_cfg.dep < walk_end

\* C11: for non-empty trips the returned bus is the first trip, in list
\* order, whose own jittered departure is >= walk_end (every earlier trip has
\* a draw that leaves before walk_end), or, when every trip was passed, the
\* last trip with a fresh jitter; bus_dep < walk_end only in that fallback;
\* and wait_dur is max(0, bus_dep - walk_end), never negative, in every
\* branch, the empty trips included.
C11_FirstCatchableOrFallback ==
    spc = "returned" =>
        LET s == sample[1]
            p == picked[1]
        IN  /\ s.wait_dur = Max(0, s.bus_dep - s.walk_end)
            /\ s.wait_dur >= 0
            /\ trips = <<>> => p.trip = 0 /\ ~p.fallback /\ s.bus_dep = s.walk_end
            /\ trips # <<>> =>
                  /\ p.trip \in 1..Len(trips)
                  /\ (s.bus_dep - trips[p.trip][1]) \in Triangular(jitter_cfg.dep)
                  /\ \A k \in 1..(p.trip - 1) : Missable(k, s.walk_end)
                  /\ ~p.fallback => s.bus_dep >= s.walk_end
                  /\ p.fallback =>
                        p.trip = Len(trips) /\ Missable(Len(trips), s.walk_end)
                  /\ s.bus_dep < s.walk_end => p.fallback

\* the fallback returns a bus that left before walk_end, and a later trip is
\* selected after an earlier one was passed
C11_Witness ==
    /\ spc = "returned"
    /\ Len(trips) = 2
    /\ picked[1].fallback
    /\ sample[1].bus_dep < sample[1].walk_end
    /\ sample[1].wait_dur = 0

\* all three jitter bounds set to 0
ZeroJitter == [walk |-> 0, dep |-> 0, ride |-> 0]

\* C12: with every jitter bound 0 and exactly one trip, a call of
\* simulate_step returns, and its lateness is
\* max(0, sched_arr + walk_office - class_start) whether or not the trip can
\* be caught.
C12_ZeroJitterDeterministic ==
    (jitter_cfg = ZeroJitter /\ Len(trips) = 1 /\ spc # "call") =>
        /\ spc = "returned"
        /\ sample[1].lateness =
              Max(0, trips[1][2] + simulator.walk_office - simulator.class_start)

\* C13: a sample built from the last-trip fallback is late.
C13_FallbackIsLate ==
    (spc = "returned" /\ trips # <<>> /\ picked[1].fallback) =>
        sample[1].lateness > 0

(***************************************************************************)
(* Properties of the run parameters (Spec)                                 *)
(***************************************************************************)
\* C14: the deadline of every sample of the sweep is the meeting time the run
\* was given, the same time that ends the sweep window: its lateness is
\* max(0, arrival - end).
C14_DeadlineIsMeetingArgument ==
    sample # <<>> => sample[1].lateness = Max(0, sample[1].arrival - end)

(***************************************************************************)
(* Properties of the sweep run to its end (FairSpec)                       *)
(***************************************************************************)
\* the sweep has returned with current > end and a curve of exactly the
\* points at start + k*step for k = 0..floor((end - start) / step), in
\* strictly increasing order, none later than end, each with one probability,
\* after one call of the estimator per point
SweepDone ==
    /\ pc = "done"
    /\ current > end
    /\ Len(times) = (end - start) \div step + 1
    /\ Len(probs) = Len(times)
    /\ \A k \in 1..Len(times) :
          times[k] = start + (k - 1) * step /\ times[k] <= end
    /\ \A k \in 1..(Len(times) - 1) : times[k] < times[k + 1]
    /\ mc_calls = Len(times)

\* C15: started with current = start, no trips and no last fetch, and a
\* step > 0, the sweep terminates: it reaches its end with current > end,
\* having appended exactly one curve point per step, at the times
\* start + k*step for k = 0..floor((end - start) / step), in strictly
\* increasing order, with one estimator call per step and no point later
\* than end.
C15_SweepTerminates ==
    (current = start /\ trips = <<>> /\ last_fetch = <<>> /\ step > 0)
        ~> SweepDone

\* a finished sweep whose step does not divide the window: the last point
\* lies before end
C15_Witness ==
    /\ pc = "done"
    /\ (end - start) % step # 0
    /\ Len(times) = (end - start) \div step + 1
    /\ Last(times) < end
    /\ mc_calls = Len(times)

====
